---------------------------- MODULE Spec2Model ----------------------------
(***************************************************************************)
(* A model of the LRC editor of src/lrc_editor.py: the lyric document      *)
(* (lines, cursor, modified flag), the Edit/Sync mode, the polled MPRIS    *)
(* player and the main loop of LRCEditor.run.                              *)
(*                                                                         *)
(* A line is a sequence of one-character strings.  Times are integers in   *)
(* centiseconds (the unit of the LRC grammar "[mm:ss.xx]"), so the -1      *)
(* second sentinel of the code is -100.                                    *)
(***************************************************************************)
EXTENDS Integers, Sequences, FiniteSets, TLC

(***************************************************************************)
(* Units and bounds                                                        *)
(***************************************************************************)
\* centiseconds in a second: the two decimals of "{seconds:05.2f}"
CentisPerSecond == 100
\* "seconds // 60" and "seconds % 60"
SecondsPerMinute == 60
\* the width of "{minutes:02d}"
MinuteWidth == 2
\* the seek step of the arrow keys, in seconds
SeekStep == 5

\* the player's position is one of 0, PosStep, ..., MaxPos * PosStep centiseconds
MaxPos == 1
\* a document grows to at most MaxLines lines
MaxLines == 2
\* the round trip of a timestamp is taken for the minutes 0..MaxMinutes, and as
\* many from the last minute of an hour and from the last of two digits on
MaxMinutes == 2

PosStep == SeekStep * CentisPerSecond
Positions == {p * PosStep : p \in 0..MaxPos}

\* Python's None
None == "None"

(***************************************************************************)
(* Text: helpers for str methods                                           *)
(***************************************************************************)
Abs(n) == IF n < 0 THEN -n ELSE n
Min(a, b) == IF a < b THEN a ELSE b
Max(a, b) == IF a > b THEN a ELSE b

DigitChars == <<"0", "1", "2", "3", "4", "5", "6", "7", "8", "9">>
IsDigit(c) == \E i \in 1..Len(DigitChars) : DigitChars[i] = c
DigitValue(c) == (CHOOSE i \in 1..Len(DigitChars) : DigitChars[i] = c) - 1
IsSpace(c) == c \in {" ", "\n", "\t"}

\* str.startswith(c) for a one-character c
StartsWith(line, c) == Len(line) > 0 /\ line[1] = c

\* the 1-based index of the first c in s, 0 when there is none (str.index raises)
IndexOf(s, c) ==
    IF \E i \in 1..Len(s) : s[i] = c
    THEN CHOOSE i \in 1..Len(s) : s[i] = c /\ \A j \in 1..(i - 1) : s[j] # c
    ELSE 0

Count(s, c) == Cardinality({i \in 1..Len(s) : s[i] = c})

\* s with leading and trailing whitespace removed (float() strips its argument)
RECURSIVE Strip(_)
Strip(s) ==
    IF s = <<>> THEN s
    ELSE IF IsSpace(s[1]) THEN Strip(Tail(s))
    ELSE IF IsSpace(s[Len(s)]) THEN Strip(SubSeq(s, 1, Len(s) - 1))
    ELSE s

\* the decimal digits of n >= 0
RECURSIVE Digits(_)
Digits(n) ==
    IF n < 10 THEN <<DigitChars[n + 1]>>
    ELSE Digits(n \div 10) \o <<DigitChars[(n % 10) + 1]>>

RECURSIVE ZeroPad(_, _)
ZeroPad(s, width) == IF Len(s) >= width THEN s ELSE ZeroPad(<<"0">> \o s, width)

\* format(n, "02d"): the sign counts in the width
FormatInt(n, width) ==
    IF n < 0 THEN <<"-">> \o ZeroPad(Digits(-n), width - 1)
    ELSE ZeroPad(Digits(n), width)

\* the value of a string of digits
RECURSIVE DigitsValue(_)
DigitsValue(s) ==
    IF s = <<>> THEN 0 ELSE DigitsValue(SubSeq(s, 1, Len(s) - 1)) * 10 + DigitValue(s[Len(s)])

\* float(s), in centiseconds; [ok |-> FALSE] is ValueError.  Over the characters
\* of the model (digits, sign, point, brackets, colon, the letters a and b,
\* whitespace) float() accepts [sign] digits [. digits] with at least one digit.
\* Fraction digits past the second are dropped.
ParseParts(ip, fp, negative) ==
    IF /\ \A i \in 1..Len(ip) : IsDigit(ip[i])
       /\ \A i \in 1..Len(fp) : IsDigit(fp[i])
       /\ Len(ip) + Len(fp) > 0
    THEN [ok |-> TRUE,
          v |-> (IF negative THEN -1 ELSE 1)
                  * (DigitsValue(ip) * CentisPerSecond
                       + DigitsValue(SubSeq(fp \o <<"0", "0">>, 1, 2)))]
    ELSE [ok |-> FALSE, v |-> 0]

ParseAt(body, dot, negative) ==
    IF dot = 0 THEN ParseParts(body, <<>>, negative)
    ELSE ParseParts(SubSeq(body, 1, dot - 1), SubSeq(body, dot + 1, Len(body)), negative)

ParseStripped(s) ==
    IF Len(s) > 0 /\ s[1] \in {"-", "+"}
    THEN ParseAt(Tail(s), IndexOf(Tail(s), "."), s[1] = "-")
    ELSE ParseAt(s, IndexOf(s, "."), FALSE)

ParseFloat(str) == ParseStripped(Strip(str))

(***************************************************************************)
(* Timestamps                                                              *)
(***************************************************************************)
\* the sentinel -1 (seconds) of get_player_position and extract_timestamp
NoPosition == -CentisPerSecond

\* format_timestamp(seconds): "[mm:ss.xx]"; // floors and % is non-negative, as in Python
FormatParts(minutes, secs) ==
    <<"[">> \o FormatInt(minutes, MinuteWidth) \o <<":">>
      \o ZeroPad(Digits(secs \div CentisPerSecond), 2) \o <<".">>
      \o ZeroPad(Digits(secs % CentisPerSecond), 2) \o <<"]">>

\* a variant of format_timestamp that stops the minutes at the last of an hour
FormatClamped(seconds) ==
    FormatParts(Min(SecondsPerMinute - 1, seconds \div (SecondsPerMinute * CentisPerSecond)),
                seconds % (SecondsPerMinute * CentisPerSecond))

format_timestamp(seconds) ==
    FormatParts(seconds \div (SecondsPerMinute * CentisPerSecond),
                seconds % (SecondsPerMinute * CentisPerSecond))

\* extract_timestamp(line): the centiseconds of a leading "[m:s]", else NoPosition
ToSeconds(minutes, seconds) ==
    IF ~minutes.ok \/ ~seconds.ok THEN NoPosition          \* float: ValueError
    ELSE minutes.v * SecondsPerMinute + seconds.v

SplitAtColon(timestamp, colon) ==
    ToSeconds(ParseFloat(SubSeq(timestamp, 1, colon - 1)),
              ParseFloat(SubSeq(timestamp, colon + 1, Len(timestamp))))

ParseStamp(timestamp) ==
    IF Count(timestamp, ":") # 1 THEN NoPosition           \* unpacking: ValueError
    ELSE SplitAtColon(timestamp, IndexOf(timestamp, ":"))

ExtractUpTo(line, close) ==
    IF close = 0 THEN NoPosition                           \* line.index: ValueError
    ELSE ParseStamp(SubSeq(line, 2, close - 1))

extract_timestamp(line) ==
    IF ~StartsWith(line, "[") THEN NoPosition
    ELSE ExtractUpTo(line, IndexOf(line, "]"))

(***************************************************************************)
(* Files: a text is a sequence of characters                               *)
(***************************************************************************)
\* str.splitlines(): the lines without their terminators
RECURSIVE SplitLines(_)
SplitLinesAt(text, nl) ==
    IF nl = 0 THEN <<text>>
    ELSE <<SubSeq(text, 1, nl - 1)>> \o SplitLines(SubSeq(text, nl + 1, Len(text)))
SplitLines(text) == IF text = <<>> THEN <<>> ELSE SplitLinesAt(text, IndexOf(text, "\n"))

\* file.readlines(): the lines with their terminators
RECURSIVE ReadLines(_)
ReadLinesAt(text, nl) ==
    IF nl = 0 THEN <<text>>
    ELSE <<SubSeq(text, 1, nl)>> \o ReadLines(SubSeq(text, nl + 1, Len(text)))
ReadLines(text) == IF text = <<>> THEN <<>> ELSE ReadLinesAt(text, IndexOf(text, "\n"))

\* The lyric files of the model:
\*   "[00:10.00]a\n[00:00.00]b"   two timestamped lines, SeekStep seconds from
\*                                 the middle on either side
\*   "[a]b\n[a"                    a bracketed prefix that is no timestamp, and a
\*                                 bracket that is never closed
TimedText == format_timestamp(2 * PosStep) \o <<"a", "\n">> \o format_timestamp(0) \o <<"b">>
BracketText == <<"[", "a", "]", "b", "\n", "[", "a">>
FileTexts == {TimedText, BracketText}

(***************************************************************************)
(* State                                                                   *)
(***************************************************************************)
VARIABLES
    lines,                 \* self.lines
    current_line,          \* self.current_line
    modified,              \* self.modified
    last_timestamp,        \* self.last_timestamp: <<>> is None, <<t>> the string t
    last_timestamp_value,  \* self.last_timestamp_value: <<>> is None, <<v>> the value v
    current_song,          \* self.current_song
    current_file,          \* self.current_file
    current_player,        \* self.current_player, player_interface, properties_interface
    edit_mode,             \* self.edit_mode
    sync_due,              \* current_time - last_sync_time >= sync_interval
    pc,                    \* where the process is: main, the three parts of a loop pass, the end
    toggled,               \* history: the user has toggled the mode
    last                   \* history: the last handler run, what it returned, what it found

editor == <<lines, current_line, modified, last_timestamp, last_timestamp_value,
            current_song, current_file, current_player, edit_mode>>
vars == <<lines, current_line, modified, last_timestamp, last_timestamp_value,
          current_song, current_file, current_player, edit_mode, sync_due, pc,
          toggled, last>>

NoSong == "No song playing"
Handle == "player"
Statuses == {"Playing", "Paused", "Stopped"}
\* the Metadata property of the player
Metadata == [title |-> "Song", artist |-> <<"Artist">>, url |-> "file:///song.mp3"]
SongOf(metadata) == "Song - Artist"
FileOf(metadata) == "/song.mp3"

\* The player is another process: what it answers is its own business.  A
\* world is what a handler finds: the player's PlaybackStatus (None: no player
\* is on the bus), its Position in centiseconds, and the remote call that
\* fails while the handler runs ("none": every call to a player on the bus
\* goes through).
\* With no player on the bus only the connection attempt can fail on its own.
Faults == {"none", "connect", "status", "position", "metadata", "seek", "play"}
Worlds(faults) ==
    {w \in [player : Statuses \cup {None}, position : Positions, fault : faults] :
        w.player = None => (w.position = 0 /\ w.fault \in {"none", "connect"})}
\* What get_player_position can find: it reads the Position of a playing player only.
PollWorlds ==
    {w \in Worlds({"none", "connect", "status", "position", "metadata"}) :
        w.player # "Playing" => w.position = 0}
\* What a seek, a restart and a PropertiesChanged signal can find: the calls
\* each of them makes are the ones that can fail; a signal carries no position.
SeekWorlds == Worlds({"none", "connect", "position", "seek"})
RestartWorlds == Worlds({"none", "connect", "seek", "play"})
SignalWorlds ==
    {w \in Worlds({"none", "metadata"}) : w.player = "Playing" /\ w.position = 0}
CallFails(site, w) == w.player = None \/ w.fault = site

\* the history of a handler that is no document command.  outcome is what a
\* reload found on disk, locked tells that the handler ran inside "with
\* self.sync_lock", sought is the position a Seek of the handler left the
\* player at (NoPosition: no Seek went through), asked is the offset the caller
\* gave the handler and delta the one the handler gave a Seek that went
\* through, and played tells that its Play() went through.
Did(cmd, ret) ==
    [cmd |-> cmd, ret |-> ret, position |-> NoPosition, current_line |-> 0,
     line |-> <<>>, count |-> 0, modified |-> FALSE,
     outcome |-> "none", locked |-> FALSE, sought |-> NoPosition, played |-> FALSE,
     asked |-> 0, delta |-> 0]

(***************************************************************************)
(* The player connection                                                   *)
(***************************************************************************)
\* get_playback_status with properties_interface = pi
get_playback_status(pi, w) ==
    IF pi = None THEN "Stopped"
    ELSE IF CallFails("status", w) THEN "Unknown"
    ELSE w.player

\* _update_metadata with properties_interface = pi: the new (current_song, current_file)
update_metadata(pi, song, file, w) ==
    IF pi = None THEN [song |-> song, file |-> file]
    ELSE IF CallFails("metadata", w) THEN [song |-> song, file |-> file]
    ELSE [song |-> IF "title" \in DOMAIN Metadata THEN SongOf(Metadata) ELSE song,
          file |-> IF "url" \in DOMAIN Metadata THEN FileOf(Metadata) ELSE file]

\* the fields the connection code writes, when it leaves them alone; events
\* are the remote calls made so far, in the order the code makes them
Connection ==
    [ok |-> TRUE, current_player |-> current_player, edit_mode |-> edit_mode,
     song |-> current_song, file |-> current_file, events |-> <<>>]

WithMetadata(c, md) == [c EXCEPT !.song = md.song, !.file = md.file]

\* connect_player: what it returns (ok) and the fields it leaves
connect_player(w) ==
    IF w.fault = "connect"
    THEN [Connection EXCEPT !.ok = FALSE, !.current_player = None, !.edit_mode = TRUE,
                            !.events = <<"connect">>]
    ELSE IF w.player = None
    THEN [Connection EXCEPT !.ok = FALSE, !.events = <<"connect">>]
    ELSE IF get_playback_status(Handle, w) = "Playing"
    THEN WithMetadata([Connection EXCEPT !.current_player = Handle,
                                         !.events = <<"connect", "status", "metadata">>],
                      update_metadata(Handle, current_song, current_file, w))
    ELSE [Connection EXCEPT !.current_player = Handle, !.events = <<"connect", "status">>]

\* "if self.current_player is None and not self.connect_player()"
connected(w) == IF current_player = None THEN connect_player(w) ELSE Connection

\* get_player_position from the status read on: the position it returns and the
\* fields it leaves
Answer(c, pos, events) ==
    [position |-> pos, current_player |-> c.current_player, edit_mode |-> c.edit_mode,
     song |-> c.song, file |-> c.file, events |-> c.events \o events]

\* a variant of PositionOver that returns the position whatever the status is
PositionOverAnyStatus(c, w) ==
    IF ~c.ok THEN Answer(c, NoPosition, <<>>)
    ELSE IF CallFails("position", w) THEN Answer(c, NoPosition, <<"status", "position">>)
    ELSE Answer(c, w.position, <<"status", "position">>)

\* a variant of PositionOver that reads the position first and the status after
PositionOverPositionFirst(c, w) ==
    IF ~c.ok THEN Answer(c, NoPosition, <<>>)
    ELSE IF CallFails("position", w) THEN Answer(c, NoPosition, <<"position">>)
    ELSE IF get_playback_status(c.current_player, w) # "Playing"
    THEN Answer(c, NoPosition, <<"position", "status">>)
    ELSE Answer(c, w.position, <<"position", "status">>)

PositionOver(c, w) ==
    IF ~c.ok THEN Answer(c, NoPosition, <<>>)
    ELSE IF get_playback_status(c.current_player, w) # "Playing"
    THEN Answer(c, NoPosition, <<"status">>)
    ELSE IF CallFails("position", w) THEN Answer(c, NoPosition, <<"status", "position">>)
    ELSE IF CallFails("metadata", w)
    THEN Answer(c, NoPosition, <<"status", "position", "metadata">>)
    ELSE IF c.song = NoSong
    THEN Answer(WithMetadata(c, update_metadata(c.current_player, c.song, c.file, w)),
                w.position, <<"status", "position", "metadata", "metadata">>)
    ELSE Answer(c, w.position, <<"status", "position", "metadata">>)

get_player_position(w) == PositionOver(connected(w), w)

\* what a caller has of an answer: the position and the fields
Heard(r) ==
    [position |-> r.position, current_player |-> r.current_player,
     edit_mode |-> r.edit_mode, song |-> r.song, file |-> r.file]

\* what get_player_position can answer in the current state
Polls == {Heard(get_player_position(w)) : w \in PollWorlds}

\* the fields the connection code writes
Polled(r) ==
    /\ current_player' = r.current_player
    /\ edit_mode' = r.edit_mode
    /\ current_song' = r.song
    /\ current_file' = r.file

(***************************************************************************)
(* The document                                                            *)
(***************************************************************************)
\* ls[i] is defined for a Python index i
ValidIndex(ls, i) == -Len(ls) <= i /\ i < Len(ls)
\* the 1-based place of Python index i
Place(ls, i) == IF i >= 0 THEN i + 1 ELSE Len(ls) + i + 1
\* list.pop(i)
Pop(ls, i) == SubSeq(ls, 1, Place(ls, i) - 1) \o SubSeq(ls, Place(ls, i) + 1, Len(ls))
\* line.split("]", 1)[1], for a line that holds a "]"
AfterBracket(line) == SubSeq(line, IndexOf(line, "]") + 1, Len(line))

\* add_timestamp, once the position is read: raised is an IndexError that leaves
\* the handler after last_timestamp is set
\* add_timestamp with the new empty line put in front of the document
StampedInFront(ls, cur, pos, timestamp, line) ==
    [raised |-> FALSE, ret |-> "True",
     lines |-> IF cur < Len(ls) - 1
               THEN [ls EXCEPT ![Place(ls, cur)] = timestamp \o line]
               ELSE <<<<>>>> \o [ls EXCEPT ![Place(ls, cur)] = timestamp \o line],
     current_line |-> cur + 1,
     modified |-> TRUE, last_timestamp |-> <<timestamp>>, last_timestamp_value |-> <<pos>>]

Stamped(ls, cur, pos, timestamp, line) ==
    [raised |-> FALSE, ret |-> "True",
     lines |-> IF cur < Len(ls) - 1
               THEN [ls EXCEPT ![Place(ls, cur)] = timestamp \o line]
               ELSE [ls EXCEPT ![Place(ls, cur)] = timestamp \o line] \o <<<<>>>>,
     current_line |-> cur + 1,
     modified |-> TRUE, last_timestamp |-> <<timestamp>>, last_timestamp_value |-> <<pos>>]

Raised(ls, cur, mod, pos, timestamp) ==
    [raised |-> TRUE, ret |-> "raise", lines |-> ls, current_line |-> cur,
     modified |-> mod, last_timestamp |-> <<timestamp>>, last_timestamp_value |-> <<pos>>]

StampLine(ls, cur, mod, pos, timestamp, line) ==
    IF StartsWith(line, "[")
    THEN IF IndexOf(line, "]") = 0
         THEN Raised(ls, cur, mod, pos, timestamp)             \* split(...)[1]: IndexError
         ELSE Stamped(ls, cur, pos, timestamp, AfterBracket(line))
    ELSE Stamped(ls, cur, pos, timestamp, line)

add_timestamp(ls, cur, mod, pos) ==
    IF ~ValidIndex(ls, cur)
    THEN Raised(ls, cur, mod, pos, format_timestamp(pos))      \* self.lines[...]: IndexError
    ELSE StampLine(ls, cur, mod, pos, format_timestamp(pos), ls[Place(ls, cur)])

\* remove_timestamp
Edited(ls, cur, mod) == [raised |-> FALSE, lines |-> ls, current_line |-> cur, modified |-> mod]

\* a variant of Popped that leaves the flag unset
PoppedUnflagged(popped, cur) ==
    Edited(popped, IF cur >= Len(popped) THEN Len(popped) - 1 ELSE cur, FALSE)

Popped(popped, cur) ==
    Edited(popped, IF cur >= Len(popped) THEN Len(popped) - 1 ELSE cur, TRUE)

\* a variant of ClearLine that deletes the only line of a document too
ClearLineAnyLength(ls, cur, mod, line) ==
    IF line = <<>>
    THEN Popped(Pop(ls, cur), cur)
    ELSE IF StartsWith(line, "[")
    THEN Edited([ls EXCEPT ![Place(ls, cur)] =
                    IF IndexOf(line, "]") # 0 THEN AfterBracket(line) ELSE <<>>],
                cur, TRUE)
    ELSE Edited(ls, cur, mod)

ClearLine(ls, cur, mod, line) ==
    IF line = <<>>
    THEN IF Len(ls) > 1 THEN Popped(Pop(ls, cur), cur) ELSE Edited(ls, cur, mod)
    ELSE IF StartsWith(line, "[")
    THEN Edited([ls EXCEPT ![Place(ls, cur)] =
                    IF IndexOf(line, "]") # 0 THEN AfterBracket(line) ELSE <<>>],
                cur, TRUE)
    ELSE Edited(ls, cur, mod)

remove_timestamp(ls, cur, mod) ==
    IF ~ValidIndex(ls, cur)
    THEN [raised |-> TRUE, lines |-> ls, current_line |-> cur, modified |-> mod]
    ELSE ClearLine(ls, cur, mod, ls[Place(ls, cur)])

\* the scan of move_to_closest_timestamp from line i (0-based) on; closest_diff
\* is -1 for float("inf")
RECURSIVE Scan(_, _, _, _, _)
\* a variant of ScanLine in which the last of two equally close lines wins
ScanLineLastWins(ls, pos, i, closest_diff, closest_line, timestamp) ==
    IF timestamp >= 0 /\ (closest_diff = -1 \/ Abs(timestamp - pos) <= closest_diff)
    THEN Scan(ls, pos, i + 1, Abs(timestamp - pos), i)
    ELSE Scan(ls, pos, i + 1, closest_diff, closest_line)

ScanLine(ls, pos, i, closest_diff, closest_line, timestamp) ==
    IF timestamp >= 0 /\ (closest_diff = -1 \/ Abs(timestamp - pos) < closest_diff)
    THEN Scan(ls, pos, i + 1, Abs(timestamp - pos), i)
    ELSE Scan(ls, pos, i + 1, closest_diff, closest_line)

Scan(ls, pos, i, closest_diff, closest_line) ==
    IF i >= Len(ls) THEN closest_line
    ELSE ScanLine(ls, pos, i, closest_diff, closest_line, extract_timestamp(ls[i + 1]))

\* move_to_closest_timestamp, once the position is read
MoveTo(cur, closest_line) ==
    IF closest_line # cur THEN [ret |-> "True", current_line |-> closest_line]
    ELSE [ret |-> "False", current_line |-> cur]

\* a variant of move_to_closest_timestamp whose scan starts from the first line
\* as the closest, not from the cursor
MoveToClosestFromTop(ls, cur, pos) ==
    IF pos < 0 THEN [ret |-> "None", current_line |-> cur]
    ELSE MoveTo(cur, Scan(ls, pos, 0, -1, 0))

move_to_closest_timestamp(ls, cur, pos) ==
    IF pos < 0 THEN [ret |-> "None", current_line |-> cur]
    ELSE MoveTo(cur, Scan(ls, pos, 0, -1, cur))

\* try_sync_position, once the position is read
try_sync_position(ls, cur, pos) ==
    IF pos < 0 THEN [ret |-> "False", current_line |-> cur]
    ELSE IF ~\E i \in 1..Len(ls) : extract_timestamp(ls[i]) >= 0
    THEN [ret |-> "False", current_line |-> cur]
    ELSE move_to_closest_timestamp(ls, cur, pos)

\* What the file system answers load_lrc_from_current: the file is missing, it
\* cannot be read, or it is read.
LoadOutcomes == {[kind |-> "missing", text |-> <<>>], [kind |-> "unreadable", text |-> <<>>]}
                  \cup {[kind |-> "read", text |-> t] : t \in FileTexts}

\* load_lrc_from_current
load_lrc_from_current(file, ls, cur, outcome) ==
    IF file = None
    THEN [ret |-> "False", lines |-> ls, current_line |-> cur, outcome |-> "nofile"]
    ELSE IF outcome.kind = "read"
    THEN [ret |-> "True", lines |-> ReadLines(outcome.text), current_line |-> 0,
          outcome |-> outcome.kind]
    ELSE IF outcome.kind = "missing"
    THEN [ret |-> "True", lines |-> <<>>, current_line |-> 0, outcome |-> outcome.kind]
    ELSE [ret |-> "False", lines |-> <<>>, current_line |-> cur, outcome |-> outcome.kind]

\* the history of a document command: the position it read, and the cursor, the
\* line at the cursor (none when the cursor is on no line), the number of lines
\* and the modified flag it found
Found(cmd, ret, pos) ==
    [cmd |-> cmd, ret |-> ret, position |-> pos, current_line |-> current_line,
     line |-> IF ValidIndex(lines, current_line)
              THEN <<lines[Place(lines, current_line)]>> ELSE <<>>,
     count |-> Len(lines), modified |-> modified,
     outcome |-> "none", locked |-> FALSE, sought |-> NoPosition, played |-> FALSE,
     asked |-> 0, delta |-> 0]

(***************************************************************************)
(* The program                                                             *)
(***************************************************************************)
Init ==
    /\ lines = <<>>
    /\ current_line = 0
    /\ modified = FALSE
    /\ last_timestamp = <<>>
    /\ last_timestamp_value = <<>>
    /\ current_song = NoSong
    /\ current_file = None
    /\ current_player = None
    /\ edit_mode = FALSE
    /\ sync_due = TRUE
    /\ pc = "main"
    /\ toggled = FALSE
    /\ last = Did("init", "None")

\* main: poll the player once, read the lyric file, enter run
Main ==
    /\ pc = "main"
    /\ \E r \in Polls, text \in FileTexts \cup {<<>>} :
          /\ Polled(r)
          /\ lines' = IF SplitLines(text) # <<>> THEN SplitLines(text) ELSE <<<<>>>>
    /\ pc' = "render"
    /\ last' = Did("main", "None")
    /\ UNCHANGED <<current_line, modified, last_timestamp, last_timestamp_value,
                   sync_due, toggled>>

\* run: the top of a loop pass draws the screen and polls the position
Render ==
    /\ pc = "render"
    /\ \E r \in Polls : Polled(r)
    /\ pc' = "getch"
    /\ last' = Did("render", "None")
    /\ UNCHANGED <<lines, current_line, modified, last_timestamp, last_timestamp_value,
                   sync_due, toggled>>

\* a handler that polls the position and moves to the closest timestamp
Moved(cmd, locked, r, m) ==
    /\ Polled(r)
    /\ current_line' = m.current_line
    /\ last' = [Found(cmd, m.ret, r.position) EXCEPT !.locked = locked]

MoveToClosest(cmd, locked, r) ==
    Moved(cmd, locked, r, move_to_closest_timestamp(lines, current_line, r.position))

\* run: the periodic sync, when the mode is Sync and a second has passed
\* the periodic sync without the test of the mode
PeriodicSyncAnyMode ==
    /\ pc = "getch"
    /\ sync_due
    /\ \E r \in Polls : MoveToClosest("sync", FALSE, r)
    /\ sync_due' = FALSE
    /\ pc' = "key"
    /\ UNCHANGED <<lines, modified, last_timestamp, last_timestamp_value, toggled>>

PeriodicSync ==
    /\ pc = "getch"
    /\ ~edit_mode /\ sync_due
    /\ \E r \in Polls : MoveToClosest("sync", FALSE, r)
    /\ sync_due' = FALSE
    /\ pc' = "key"
    /\ UNCHANGED <<lines, modified, last_timestamp, last_timestamp_value, toggled>>

\* run: no sync in this pass
NoSync ==
    /\ pc = "getch"
    /\ edit_mode \/ ~sync_due
    /\ pc' = "key"
    /\ last' = Did("nosync", "None")
    /\ UNCHANGED <<editor, sync_due, toggled>>

\* run: getch timed out, or the key is bound to nothing
KeyNone ==
    /\ pc = "key"
    /\ pc' = "render"
    /\ last' = Did("none", "None")
    /\ UNCHANGED <<editor, sync_due, toggled>>

\* run: Space
Added(r, a) ==
    /\ Len(a.lines) <= MaxLines
    /\ Polled(r)
    /\ lines' = a.lines
    /\ current_line' = a.current_line
    /\ modified' = a.modified
    /\ last_timestamp' = a.last_timestamp
    /\ last_timestamp_value' = a.last_timestamp_value
    /\ pc' = IF a.raised THEN "crashed" ELSE "render"
    /\ last' = Found("add", a.ret, r.position)

AddAt(r) == Added(r, add_timestamp(lines, current_line, modified, r.position))

KeyAddTimestamp ==
    /\ pc = "key"
    /\ \E r \in Polls : AddAt(r)
    /\ UNCHANGED <<sync_due, toggled>>

\* run: x
Removed(d) ==
    /\ lines' = d.lines
    /\ current_line' = d.current_line
    /\ modified' = d.modified
    /\ pc' = IF d.raised THEN "crashed" ELSE "render"
    /\ last' = Found("remove", IF d.raised THEN "raise" ELSE "None", NoPosition)

KeyRemoveTimestamp ==
    /\ pc = "key"
    /\ Removed(remove_timestamp(lines, current_line, modified))
    /\ UNCHANGED <<last_timestamp, last_timestamp_value, current_song, current_file,
                   current_player, edit_mode, sync_due, toggled>>

\* the player's Seek(offset): relative to its position, never before the start
Seek(position, offset) == Max(0, position + offset)

\* seek_relative(offset_seconds): the fields it leaves, what it returns, the
\* delta it hands to the player's Seek and where that leaves the player
SeekOver(c, w, offset, new_position) ==
    IF c.ok /\ ~CallFails("position", w) /\ ~CallFails("seek", w)
    THEN [c |-> c, ret |-> "True", asked |-> offset, delta |-> new_position - w.position,
          sought |-> Seek(w.position, new_position - w.position), played |-> FALSE]
    ELSE [c |-> c, ret |-> "False", asked |-> offset, delta |-> 0,
          sought |-> NoPosition, played |-> FALSE]

seek_relative(w, offset_seconds) ==
    SeekOver(connected(w), w, offset_seconds * CentisPerSecond,
             Max(0, w.position + offset_seconds * CentisPerSecond))

\* restart_playback: the fields it leaves and what it returns, after Seek(0) and Play()
RestartOver(c, w) ==
    IF ~c.ok \/ CallFails("seek", w)
    THEN [c |-> c, ret |-> "False", asked |-> 0, delta |-> 0,
          sought |-> NoPosition, played |-> FALSE]
    ELSE IF CallFails("play", w)
    THEN [c |-> c, ret |-> "False", asked |-> 0, delta |-> 0,
          sought |-> Seek(w.position, 0), played |-> FALSE]
    ELSE [c |-> c, ret |-> "True", asked |-> 0, delta |-> 0,
          sought |-> Seek(w.position, 0), played |-> TRUE]

restart_playback(w) == RestartOver(connected(w), w)

\* what is left of a transport command in the editor
Outcome(o) ==
    [c |-> [o.c EXCEPT !.events = <<>>], ret |-> o.ret, sought |-> o.sought,
     played |-> o.played, asked |-> o.asked, delta |-> o.delta]

Transported(cmd, o) ==
    /\ Polled(o.c)
    /\ last' = [Did(cmd, o.ret) EXCEPT !.sought = o.sought, !.played = o.played,
                                       !.asked = o.asked, !.delta = o.delta]

\* run: the arrow keys
KeySeek ==
    /\ pc = "key"
    /\ \E o \in {Outcome(seek_relative(w, offset_seconds)) :
                    w \in SeekWorlds, offset_seconds \in {-SeekStep, SeekStep}} :
          Transported("seek", o)
    /\ pc' = "render"
    /\ UNCHANGED <<lines, current_line, modified, last_timestamp, last_timestamp_value,
                   sync_due, toggled>>

\* run: r
KeyRestart ==
    /\ pc = "key"
    /\ \E o \in {Outcome(restart_playback(w)) : w \in RestartWorlds} :
          Transported("restart", o)
    /\ pc' = "render"
    /\ UNCHANGED <<lines, current_line, modified, last_timestamp, last_timestamp_value,
                   sync_due, toggled>>

\* run: j or the down arrow
KeyDown ==
    /\ pc = "key"
    /\ current_line' = Min(current_line + 1, Len(lines) - 1)
    /\ pc' = "render"
    /\ last' = Found("down", "None", NoPosition)
    /\ UNCHANGED <<lines, modified, last_timestamp, last_timestamp_value, current_song,
                   current_file, current_player, edit_mode, sync_due, toggled>>

\* run: k or the up arrow
KeyUp ==
    /\ pc = "key"
    /\ current_line' = Max(current_line - 1, 0)
    /\ pc' = "render"
    /\ last' = Found("up", "None", NoPosition)
    /\ UNCHANGED <<lines, modified, last_timestamp, last_timestamp_value, current_song,
                   current_file, current_player, edit_mode, sync_due, toggled>>

\* run: s returns "save" and q returns "quit"; main then ends the process
KeySave ==
    /\ pc = "key"
    /\ pc' = "exited"
    /\ last' = Did("save", "save")
    /\ UNCHANGED <<editor, sync_due, toggled>>

KeyQuit ==
    /\ pc = "key"
    /\ pc' = "exited"
    /\ last' = Did("quit", "quit")
    /\ UNCHANGED <<editor, sync_due, toggled>>

\* run: l
Loaded(cmd, l) ==
    /\ lines' = l.lines
    /\ current_line' = l.current_line
    /\ last' = [Did(cmd, l.ret) EXCEPT !.outcome = l.outcome]

KeyLoad ==
    /\ pc = "key"
    /\ \E outcome \in LoadOutcomes :
          Loaded("load", load_lrc_from_current(current_file, lines, current_line, outcome))
    /\ pc' = "render"
    /\ UNCHANGED <<modified, last_timestamp, last_timestamp_value, current_song,
                   current_file, current_player, edit_mode, sync_due, toggled>>

\* run: e
KeyToggle ==
    /\ pc = "key"
    /\ edit_mode' = ~edit_mode
    /\ \E outcome \in LoadOutcomes :
          Loaded("toggle", load_lrc_from_current(current_file, lines, current_line, outcome))
    /\ toggled' = TRUE
    /\ pc' = "render"
    /\ UNCHANGED <<modified, last_timestamp, last_timestamp_value, current_song,
                   current_file, current_player, sync_due>>

\* run: Enter, "with self.sync_lock"
KeyJump ==
    /\ pc = "key"
    /\ \E r \in Polls : MoveToClosest("jump", TRUE, r)
    /\ pc' = "render"
    /\ UNCHANGED <<lines, modified, last_timestamp, last_timestamp_value, sync_due,
                   toggled>>

Running == pc \in {"render", "getch", "key"}

\* the GLib thread: _properties_changed, when a player signals PlaybackStatus = Playing
Refreshed(md) ==
    /\ current_song' = md.song
    /\ current_file' = md.file

PropertiesChanged ==
    /\ Running
    /\ \E md \in {update_metadata(current_player, current_song, current_file, w) :
                     w \in SignalWorlds} :
          Refreshed(md)
    /\ UNCHANGED <<lines, current_line, modified, last_timestamp, last_timestamp_value,
                   current_player, edit_mode, sync_due, pc, toggled, last>>

\* the clock: sync_interval has passed since the last sync.  The loop reads the
\* clock once in a pass, after getch: that is where it sees the time pass.
SecondElapses ==
    /\ pc = "getch"
    /\ ~sync_due
    /\ sync_due' = TRUE
    /\ UNCHANGED <<editor, pc, toggled, last>>

Next ==
    \/ Main
    \/ Render
    \/ PeriodicSync
    \/ NoSync
    \/ KeyNone
    \/ KeyAddTimestamp
    \/ KeyRemoveTimestamp
    \/ KeySeek
    \/ KeyRestart
    \/ KeyDown
    \/ KeyUp
    \/ KeySave
    \/ KeyQuit
    \/ KeyLoad
    \/ KeyToggle
    \/ KeyJump
    \/ PropertiesChanged
    \/ SecondElapses

Spec == Init /\ [][Next]_vars

TypeOK ==
    /\ modified \in BOOLEAN
    /\ edit_mode \in BOOLEAN
    /\ sync_due \in BOOLEAN
    /\ toggled \in BOOLEAN
    /\ current_line \in Int
    /\ Len(lines) <= MaxLines
    /\ current_player \in {None, Handle}
    /\ pc \in {"main", "render", "getch", "key", "crashed", "exited"}

(***************************************************************************)
(* Steps of the loop, named by what they leave in the history              *)
(***************************************************************************)
SyncStep == pc = "getch" /\ last'.cmd = "sync"
JumpStep == pc = "key" /\ last'.cmd = "jump"
AddStep == pc = "key" /\ last'.cmd = "add"
RemoveStep == pc = "key" /\ last'.cmd = "remove"
MoveStep == pc = "key" /\ last'.cmd \in {"up", "down"}
ToggleStep == pc = "key" /\ last'.cmd = "toggle"

\* the line under the cursor, when the cursor is on a line
OnLine == ValidIndex(lines, current_line)
Line == lines[Place(lines, current_line)]

\* the text "[m:s]" of the timestamp grammar opens the line
OpensWithTimestamp(line) ==
    /\ StartsWith(line, "[")
    /\ IndexOf(line, "]") # 0
    /\ Count(SubSeq(line, 2, IndexOf(line, "]") - 1), ":") = 1
    /\ ParseFloat(SubSeq(line, 2, IndexOf(line, ":") - 1)).ok
    /\ ParseFloat(SubSeq(line, IndexOf(line, ":") + 1, IndexOf(line, "]") - 1)).ok

\* the lines with a valid timestamp (0-based)
Timestamped(ls) == {i \in 0..(Len(ls) - 1) : extract_timestamp(ls[i + 1]) >= 0}

(***************************************************************************)
(* Claims                                                                  *)
(***************************************************************************)
\* C1: while the editor runs, the document has at least one line and the cursor
\* is the index of one of its lines.
C1_CursorInDocument ==
    Running => (Len(lines) >= 1 /\ 0 <= current_line /\ current_line <= Len(lines) - 1)

\* C2: the mode starts as Edit, so that until the user first toggles the mode no
\* tick of the loop runs the periodic sync.
C2_NoSyncBeforeToggle == ~toggled => last.cmd # "sync"

\* C3: the mode changes only in a step that is the user's toggle command.
C3_ModeChangesOnlyOnToggle == [][edit_mode' # edit_mode => ToggleStep]_vars

\* C4: while no line of the document has a valid timestamp, no periodic sync
\* and no jump command changes the cursor.
C4_NoTimestampNoMove ==
    [][((SyncStep \/ JumpStep) /\ Timestamped(lines) = {}) => current_line' = current_line]_vars

\* C4, witness: a periodic sync has read a position of the playing player over
\* a document without timestamps.
C4_Witness ==
    /\ pc = "key"
    /\ last.cmd = "sync"
    /\ last.position >= 0
    /\ Timestamped(lines) = {}
    /\ last.current_line > 0

\* the lowest index among the timestamped lines closest to position p
IsClosest(ls, i, p) ==
    /\ i \in Timestamped(ls)
    /\ \A j \in Timestamped(ls) :
          /\ Abs(extract_timestamp(ls[i + 1]) - p) <= Abs(extract_timestamp(ls[j + 1]) - p)
          /\ j < i => Abs(extract_timestamp(ls[i + 1]) - p) < Abs(extract_timestamp(ls[j + 1]) - p)

\* C5: when the position is read and some line has a valid timestamp, a sync
\* or jump leaves the cursor on the lowest line among those whose timestamp is
\* closest to the position, and returns True exactly when the cursor changed.
C5_ClosestLowestIndex ==
    [][((SyncStep \/ JumpStep) /\ last'.position >= 0 /\ Timestamped(lines) # {})
          => /\ IsClosest(lines, current_line', last'.position)
             /\ (last'.ret = "True") <=> (current_line' # current_line)
             /\ last'.ret \in {"True", "False"}]_vars

\* C5, witness: a jump has moved the cursor up to the first of two lines whose
\* timestamps are equally far from the position.
C5_Witness ==
    /\ pc = "render"
    /\ last.cmd = "jump"
    /\ last.ret = "True"
    /\ last.position >= 0
    /\ \E j \in Timestamped(lines) :
          /\ j > current_line
          /\ Abs(extract_timestamp(lines[j + 1]) - last.position)
               = Abs(extract_timestamp(lines[current_line + 1]) - last.position)

\* C6: adding a timestamp always moves the cursor down by one: on a line that
\* is not the last the number of lines stays, on the last line one empty line
\* is appended and the cursor is on it.
C6_AddAdvancesCursor ==
    [][AddStep =>
          /\ current_line' = current_line + 1
          /\ current_line < Len(lines) - 1 => Len(lines') = Len(lines)
          /\ current_line = Len(lines) - 1 =>
                /\ Len(lines') = Len(lines) + 1
                /\ lines'[Len(lines')] = <<>>
                /\ current_line' = Len(lines') - 1]_vars

\* C7: after a timestamp is added, the line is the formatted position followed
\* by the text the line had, less a timestamp that opened it: a line that did
\* not open with a timestamp keeps all of its text.
C7_AddKeepsText ==
    [][(AddStep /\ last'.ret = "True") =>
          lines'[Place(lines, current_line)] =
              format_timestamp(last'.position)
                \o (IF OpensWithTimestamp(Line) THEN AfterBracket(Line) ELSE Line)]_vars

\* C8: removing on an empty line deletes that line when the document has more
\* than one line, and the cursor is then clamped to the last line; on the only
\* line of a document it changes nothing, so a document never loses its last line.
C8_DeleteEmptyLine ==
    [][(RemoveStep /\ OnLine /\ Line = <<>>) =>
          IF Len(lines) > 1
          THEN /\ Len(lines') = Len(lines) - 1
               /\ \A i \in 1..Len(lines') :
                     lines'[i] = IF i < current_line + 1 THEN lines[i] ELSE lines[i + 1]
               /\ current_line' = Min(current_line, Len(lines') - 1)
          ELSE /\ lines' = lines
               /\ current_line' = current_line
               /\ modified' = modified]_vars

\* C8, witness: an empty last line of a longer document has been deleted and
\* the cursor is on the new last line.
C8_Witness ==
    /\ last.cmd = "remove"
    /\ last.line = <<<<>>>>
    /\ last.count > 1
    /\ last.current_line = last.count - 1
    /\ Len(lines) = last.count - 1
    /\ current_line = Len(lines) - 1

\* C9: removing on a line that is not empty strips a timestamp that opens the
\* line and keeps the text after it; a line that opens with no timestamp, a
\* malformed bracketed prefix included, is left as it is.
C9_RemoveStripsOnlyTimestamps ==
    [][(RemoveStep /\ OnLine /\ Line # <<>>) =>
          /\ current_line' = current_line
          /\ lines' = [lines EXCEPT ![Place(lines, current_line)] =
                          IF OpensWithTimestamp(Line) THEN AfterBracket(Line) ELSE Line]]_vars

\* C10, as claimed: a step of add, remove or cursor move that changes the lines
\* or the cursor leaves the modified flag set.
C10_AnyMutationSetsModified ==
    [][((AddStep \/ RemoveStep \/ MoveStep)
           /\ (lines' # lines \/ current_line' # current_line)) => modified']_vars

\* C10, amended: a step of add or remove that changes the lines or the cursor
\* leaves the modified flag set; a cursor move leaves the flag as it was.
C10_EditsSetModified ==
    [][/\ ((AddStep \/ RemoveStep) /\ (lines' # lines \/ current_line' # current_line))
            => modified'
       /\ MoveStep => modified' = modified]_vars

\* C10, witness: a remove has changed a document that was not modified before.
C10_Witness ==
    /\ last.cmd = "remove"
    /\ ~last.modified
    /\ last.line # <<>>
    /\ last.line[1] # <<>>
    /\ modified

\* a transport command against the connection the editor already holds
TransportStep == pc = "key" /\ last'.cmd \in {"seek", "restart"} /\ current_player = Handle

\* C11: a transport call that fails against the current connection invalidates
\* the handle: after a seek or restart that fails on the connection it had,
\* the editor holds no handle, so that the next call connects again.
C11_FailureInvalidatesHandle ==
    [][(TransportStep /\ last'.ret = "False") => current_player' = None]_vars

\* C12: no command raises: the process never ends on an exception of a handler.
C12_NoCommandRaises == pc # "crashed"

\* C13: a mode toggle whose reload finds the lyric file missing or unreadable
\* leaves the empty document, one empty line with the cursor on it, and does
\* not end the process.
C13_ToggleReloadEmptyDocument ==
    [][(ToggleStep /\ last'.outcome \in {"missing", "unreadable"}) =>
          /\ lines' = <<<<>>>>
          /\ current_line' = 0
          /\ pc' # "crashed"]_vars

RestartStep == pc = "key" /\ last'.cmd = "restart"

\* C14: a restart that succeeds leaves the player at position zero and playing.
C14_RestartFromZero ==
    [][(RestartStep /\ last'.ret = "True") => (last'.sought = 0 /\ last'.played)]_vars

\* C16: the cached metadata (current_song, current_file) changes only in a step
\* of the notification thread.
C16_OnlyPumpWritesMetadata ==
    [][(current_song' # current_song \/ current_file' # current_file)
          => PropertiesChanged]_vars

\* C17: the periodic sync and the jump command both move the cursor while
\* holding sync_lock.
C17_SyncAndJumpHoldLock == [][(SyncStep \/ JumpStep) => last'.locked]_vars

SaveStep == pc = "key" /\ last'.cmd = "save"

\* C20: a save request changes neither lines, cursor, mode nor modified flag,
\* and leaves the editor in its loop, where it takes further commands.
C20_SaveKeepsEditing ==
    [][SaveStep =>
          /\ UNCHANGED <<lines, current_line, edit_mode, modified>>
          /\ Running']_vars

\* what get_player_position promises of its answer r in world w
PositionContract(w, r) ==
    /\ (\/ w.player # "Playing"
        \/ w.fault \in {"status", "position", "metadata"}
        \/ (current_player = None /\ w.fault = "connect")) => r.position = NoPosition
    /\ r.position # NoPosition =>
          /\ r.position >= 0
          /\ r.position = w.position
          /\ w.player = "Playing" /\ w.fault # "status"
    /\ \A pi \in {None, Handle} : get_playback_status(pi, w) \in Statuses \cup {"Unknown"}

\* C15: whatever the player does when a loop pass comes to query it, the
\* position query gives the sentinel when no player can be connected, when the
\* status it reads is not Playing or when a call fails; it gives a position
\* only when it read Playing, and the status query always gives a value.
C15_SentinelUnlessPlaying ==
    pc = "getch" => \A w \in PollWorlds : PositionContract(w, get_player_position(w))

\* C15, witness: a jump on a connected player got the sentinel.
C15_Witness ==
    /\ last.cmd = "jump"
    /\ last.position = NoPosition
    /\ current_player = Handle
    /\ pc = "render"

\* the events of a sync attempt whose position query answered r: the calls of
\* the query, then the cursor update when there is one
SyncEvents(r) ==
    r.events \o (IF move_to_closest_timestamp(lines, current_line, r.position).ret = "True"
                 THEN <<"cursor">> ELSE <<>>)

\* every event "later" of ev comes after an event "earlier"
Precedes(ev, earlier, later) ==
    \A i \in 1..Len(ev) : ev[i] = later => \E j \in 1..(i - 1) : ev[j] = earlier

StatusPositionCursor(ev) ==
    Precedes(ev, "status", "position") /\ Precedes(ev, "position", "cursor")

\* C18: in a sync attempt, whatever the player does, the status is read before
\* the position and the position is read before the cursor is changed.
C18_StatusPositionCursorOrder ==
    (pc = "getch" /\ ~edit_mode /\ sync_due) =>
        \A w \in PollWorlds : StatusPositionCursor(SyncEvents(get_player_position(w)))

\* C18, witness: a periodic sync read a position and moved the cursor.
C18_Witness ==
    /\ last.cmd = "sync"
    /\ last.ret = "True"
    /\ last.position >= 0
    /\ current_line # last.current_line

(***************************************************************************)
(* The round trip of a timestamp: format_timestamp, then extract_timestamp *)
(***************************************************************************)
\* the times of the round trip, in centiseconds: every second of the minutes
\* chosen, with the centiseconds at the ends of each digit
RoundTripMinutes ==
    (0..MaxMinutes)
      \cup {SecondsPerMinute - 1 + k : k \in 0..MaxMinutes}
      \cup {10 ^ MinuteWidth - 1 + k : k \in 0..MaxMinutes}
RoundTripCentis == {0, 1, 9, 10, 90, CentisPerSecond - 1}
RoundTripTimes ==
    {(m * SecondsPerMinute + sec) * CentisPerSecond + c :
        m \in RoundTripMinutes, sec \in 0..(SecondsPerMinute - 1), c \in RoundTripCentis}
\* the text after the timestamp
RoundTripTexts == {<<>>, <<"a", "]", "b">>, <<"[", "0", ":", "1", "]", " ">>}

\* the time to format is in last_timestamp_value, the text of the line in lines
RoundTripInit ==
    /\ lines \in {<<text>> : text \in RoundTripTexts}
    /\ current_line = 0
    /\ modified = FALSE
    /\ last_timestamp = <<>>
    /\ last_timestamp_value \in {<<t>> : t \in RoundTripTimes}
    /\ current_song = NoSong
    /\ current_file = None
    /\ current_player = None
    /\ edit_mode = FALSE
    /\ sync_due = FALSE
    /\ pc = "format"
    /\ toggled = FALSE
    /\ last = Did("init", "None")

\* timestamp = self.format_timestamp(position); the line is timestamp + text
FormatTime ==
    /\ pc = "format"
    /\ last_timestamp' = <<format_timestamp(last_timestamp_value[1])>>
    /\ lines' = <<format_timestamp(last_timestamp_value[1]) \o lines[1]>>
    /\ pc' = "extract"
    /\ last' = Did("format", "None")
    /\ UNCHANGED <<current_line, modified, last_timestamp_value, current_song,
                   current_file, current_player, edit_mode, sync_due, toggled>>

\* timestamp = self.extract_timestamp(line)
ExtractTime ==
    /\ pc = "extract"
    /\ last' = [Did("extract", "None") EXCEPT !.position = extract_timestamp(lines[1])]
    /\ pc' = "extracted"
    /\ UNCHANGED <<editor, sync_due, toggled>>

RoundTripNext == FormatTime \/ ExtractTime

RoundTripSpec == RoundTripInit /\ [][RoundTripNext]_vars

\* C19: the timestamp extracted from the formatted text of a time, whatever
\* text follows it, is that time; the minutes are written in full, padded to
\* two digits.
C19_FormatExtractRoundTrip ==
    pc = "extracted" =>
        /\ last.position = last_timestamp_value[1]
        /\ IndexOf(lines[1], ":") - 2
             = Max(MinuteWidth,
                   Len(Digits(last_timestamp_value[1] \div (SecondsPerMinute * CentisPerSecond))))
        /\ lines[1][Len(last_timestamp[1])] = "]"

\* C19, witness: a time of a hundred minutes or more, with text after the
\* timestamp, has made the round trip.
C19_Witness ==
    /\ pc = "extracted"
    /\ last_timestamp_value[1] >= (10 ^ MinuteWidth) * SecondsPerMinute * CentisPerSecond
    /\ Len(lines[1]) > Len(last_timestamp[1])
    /\ last.position >= 0

SeekKeyStep == pc = "key" /\ last'.cmd = "seek"

\* C21: a seek that goes through hands the player's Seek the offset the caller
\* asked for, also when it leads before the start of the track.
C21_SeekHandsDeltaUnchanged ==
    [][(SeekKeyStep /\ last'.ret = "True") => last'.delta = last'.asked]_vars

\* the commands of the user that set the cursor; e reloads the document as l does
CursorCommandStep ==
    pc = "key" /\ last'.cmd \in {"up", "down", "add", "remove", "jump", "load", "toggle"}

\* C22: in Edit mode the cursor changes only in a step of a command of the
\* user (cursor up or down, add, remove, jump, load, or the load of the mode
\* toggle); a periodic tick in Edit mode leaves it where it is, and the
\* periodic sync runs only in Sync mode.
C22_EditModeCursorOnlyByCommand ==
    [][/\ (edit_mode /\ current_line' # current_line) => CursorCommandStep
       /\ (pc = "getch" /\ edit_mode) => current_line' = current_line
       /\ SyncStep => ~edit_mode]_vars

\* a tick came due in Edit mode over a document with a timestamp to move to,
\* and no sync ran
C22_Witness ==
    /\ pc = "key" /\ last.cmd = "nosync"
    /\ edit_mode /\ sync_due
    /\ Timestamped(lines) # {}

\* C23: an add-timestamp that finds no playback position (the query answers
\* the sentinel) returns False and leaves the lines, the cursor, the modified
\* flag and the last-timestamp memory as they were.
C23_NoPositionNoTimestamp ==
    [][(AddStep /\ last'.position = NoPosition) =>
          /\ last'.ret = "False"
          /\ UNCHANGED <<lines, current_line, modified,
                         last_timestamp, last_timestamp_value>>]_vars

\* C24: the periodic sync and the jump change at most the cursor: the lines,
\* the modified flag, the mode and the last-timestamp memory stay.
C24_SyncAndJumpChangeOnlyCursor ==
    [][(SyncStep \/ JumpStep) =>
          UNCHANGED <<lines, modified, edit_mode,
                      last_timestamp, last_timestamp_value>>]_vars

\* the lines of ls other than the one at 0-based index cur are those of ls2, in place
OthersKept(ls, cur, ls2) ==
    \A i \in 1..Len(ls) : i # cur + 1 => ls2[i] = ls[i]

\* ls2 is ls without its line at 0-based index cur
LineDropped(ls, cur, ls2) ==
    /\ Len(ls2) = Len(ls) - 1
    /\ \A i \in 1..Len(ls2) : ls2[i] = IF i < cur + 1 THEN ls[i] ELSE ls[i + 1]

=============================================================================
